---------------------------- MODULE Spec2Model ----------------------------
(***************************************************************************)
(* Model of convert_pdf.py: the POST /api/convert-pdf handler, which       *)
(* downloads a PDF, rasterizes every page and uploads the page images      *)
(* concurrently with asyncio.gather.                                       *)
(*                                                                         *)
(* One handler invocation is a coroutine; an action of the model is the    *)
(* code that runs between two suspension points (await) of a coroutine.    *)
(***************************************************************************)
EXTENDS Integers, Sequences, FiniteSets, TLC

VARIABLES
    pc,               \* per request: where the handler coroutine is suspended
    remote,           \* per request: the resource the requested URL points to
    http_response,    \* per request: the download response seen (line 31)
    body_len,         \* per request: len(pdf_bytes) read at line 42
    pdf_bytes,        \* per request: the handler's local pdf_bytes (line 94)
    image_bytes_list, \* per request: the handler's local image_bytes_list (line 95)
    tasks,            \* per request: the upload tasks gathered at line 99
    done_order,       \* per request: the order in which the upload tasks finished
    first_raised,     \* per request: the first HTTPException raised for it
    response,         \* per request: the response the caller received
    calls             \* per request: external calls made on its behalf

vars == <<pc, remote, http_response, body_len, pdf_bytes, image_bytes_list,
          tasks, done_order, first_raised, response, calls>>

-----------------------------------------------------------------------------
(* Bounds of the model *)

\* Number of requests the server handles (concurrently).
NumReqs == 2

\* Largest page count of a served PDF.
MaxPages == 2

Reqs == 1..NumReqs

-----------------------------------------------------------------------------
(* Optional values: <<>> is None, <<x>> is a value x *)

None == <<>>

Some(x) == <<x>>

IsNone(o) == Len(o) = 0

IsSome(o) == Len(o) = 1

Get(o) == o[1]

-----------------------------------------------------------------------------
(* Strings as character sequences, with the two str operations the code uses *)

UpperChars == <<"A","B","C","D","E","F","G","H","I","J","K","L","M",
                "N","O","P","Q","R","S","T","U","V","W","X","Y","Z">>

LowerChars == <<"a","b","c","d","e","f","g","h","i","j","k","l","m",
                "n","o","p","q","r","s","t","u","v","w","x","y","z">>

LowerChar(c) ==
    IF \E k \in 1..Len(UpperChars) : UpperChars[k] = c
    THEN LowerChars[CHOOSE k \in 1..Len(UpperChars) : UpperChars[k] = c]
    ELSE c

\* str.lower()
Lower(s) == [i \in 1..Len(s) |-> LowerChar(s[i])]

\* sub in s
Contains(sub, s) ==
    \E i \in 1..(Len(s) - Len(sub) + 1) : SubSeq(s, i, i + Len(sub) - 1) = sub

DigitChars == <<"0","1","2","3","4","5","6","7","8","9">>

RECURSIVE Digits(_)
\* f"{n}" for a non-negative integer
Digits(n) ==
    IF n < 10 THEN <<DigitChars[n + 1]>>
    ELSE Digits(n \div 10) \o <<DigitChars[(n % 10) + 1]>>

PdfWord == <<"p","d","f">>

CtApplicationPdf == <<"a","p","p","l","i","c","a","t","i","o","n","/","p","d","f">>

CtApplicationPdfUpper == <<"A","p","p","l","i","c","a","t","i","o","n","/","P","D","F">>

CtTextHtml == <<"t","e","x","t","/","h","t","m","l">>

\* the Content-Type header is absent: headers.get('Content-Type', '') gives ''
CtAbsent == <<>>

ContentTypes == {CtApplicationPdf, CtApplicationPdfUpper, CtTextHtml, CtAbsent}

-----------------------------------------------------------------------------
(* The remote PDF source and the image host *)

\* Limit file size to 10 MB
MaxPdfBytes == 10 * 1024 * 1024

Statuses == {200, 404, 500}

BodyLengths == {1024, MaxPdfBytes, MaxPdfBytes + 1}

\* pages = Unparseable: the body is not a PDF that fitz can open
Unparseable == 0 - 1

PageCounts == {Unparseable} \cup (0..MaxPages)

Resources ==
    [status : Statuses, content_type : ContentTypes,
     len : BodyLengths, pages : PageCounts]

SinglePagePdf ==
    [status |-> 200, content_type |-> CtApplicationPdf, len |-> 1024, pages |-> 1]

HostUrls == {"urlA", "urlB"}

TransportOutcomes == {"ok", "ClientError", "Exception"}

UploadOutcomes == {"ok", "malformed", "throws"}

-----------------------------------------------------------------------------
(* Exceptions *)

Detail(msg, arg) == [msg |-> msg, arg |-> arg]

HTTPException(status_code, detail) ==
    [cls |-> "HTTPException", status_code |-> status_code, detail |-> detail]

\* aiohttp.ClientError raised by the HTTP client
ClientError == [cls |-> "ClientError", status_code |-> 0,
                detail |-> Detail("connection failed", <<>>)]

\* any other exception raised by a library call
OtherError == [cls |-> "Exception", status_code |-> 0,
               detail |-> Detail("library error", <<>>)]

\* isinstance(e, cls): HTTPException and ClientError both derive from Exception
IsInstance(e, cls) == cls = "Exception" \/ e.cls = cls

TransportError(outcome) == IF outcome = "ClientError" THEN ClientError ELSE OtherError

-----------------------------------------------------------------------------
(* download_pdf *)

\* A function of the code is modelled by the chain of exceptions raised while
\* it runs, in the order raised: <<>> when it returns normally, otherwise the
\* last exception of the chain is the one that leaves the function.

Propagated(chain) == chain[Len(chain)]

\* the except clauses of download_pdf, applied to an exception e raised in its try
DownloadExcept(e) ==
    IF IsInstance(e, "ClientError")
    THEN HTTPException(400, Detail("Client error occurred while downloading PDF.", <<>>))
    ELSE HTTPException(500, Detail("Unexpected error occurred.", <<>>))

\* session.get(...) and the checks of the response's status and content type
DownloadHeadRaised(outcome, resp) ==
    IF outcome # "ok" THEN <<TransportError(outcome)>>
    ELSE IF resp.status # 200
    THEN <<HTTPException(400, Detail("Failed to download PDF. Status code: ",
                                     Digits(resp.status)))>>
    ELSE IF ~Contains(PdfWord, Lower(resp.content_type))
    THEN <<HTTPException(400, Detail("URL does not point to a PDF file. Content-Type: ",
                                     resp.content_type))>>
    ELSE <<>>

TooLargeOffByOne(n) == n >= MaxPdfBytes

\* len(pdf_bytes) > 10 * 1024 * 1024
TooLarge(n) == n > MaxPdfBytes

\* response.read() and the size check
DownloadBodyRaised(outcome, n) ==
    IF outcome # "ok" THEN <<TransportError(outcome)>>
    ELSE IF TooLarge(n)
    THEN <<HTTPException(400, Detail("PDF file is too large.", <<>>))>>
    ELSE <<>>

\* an exception raised inside the try of download_pdf meets its except clauses
DownloadChain(raised) ==
    IF raised = <<>> THEN <<>> ELSE raised \o <<DownloadExcept(raised[1])>>

-----------------------------------------------------------------------------
(* convert_pdf_to_images *)

\* fitz.open fails on bytes that are no PDF; the except clause classifies it
ConvertChain(doc) ==
    IF doc.pages = Unparseable
    THEN <<OtherError,
           HTTPException(500, Detail("Error converting PDF to images.", <<>>))>>
    ELSE <<>>

\* one PNG per page, in document order; the PNG of page i is written i
ConvertImages(doc) == [page_num \in 1..doc.pages |-> page_num]

-----------------------------------------------------------------------------
(* upload_image_to_imgbb *)

UploadExcept(e) == HTTPException(500, Detail("Error uploading images.", <<>>))

UploadChain(outcome) ==
    IF outcome = "ok" THEN <<>>
    ELSE IF outcome = "malformed"
    THEN LET e == HTTPException(500, Detail("Error uploading image.", <<>>))
         IN  <<e, UploadExcept(e)>>
    ELSE <<OtherError, UploadExcept(OtherError)>>

PendingTask(image) ==
    [state |-> "pending", image |-> image, result |-> "", exc |-> None]

-----------------------------------------------------------------------------
(* convert_pdf_endpoint *)

\* the except clauses of the handler, applied to an exception e raised in its try
HandlerExcept(e) ==
    IF IsInstance(e, "HTTPException") THEN e
    ELSE HTTPException(500, e.detail)

\* an exception raised inside the try of the handler meets its except clauses
HandlerChain(raised) ==
    IF IsInstance(Propagated(raised), "HTTPException") THEN raised
    ELSE raised \o <<HandlerExcept(Propagated(raised))>>

\* the framework's response to an HTTPException leaving the handler
FailureResponse(e) ==
    [kind |-> "failure", status_code |-> e.status_code, detail |-> e.detail,
     images |-> <<>>]

\* return {"images": image_urls}
SuccessResponse(image_urls) ==
    [kind |-> "success", status_code |-> 200, detail |-> Detail("", <<>>),
     images |-> image_urls]

\* the first HTTPException of a chain, if any
FirstClassified(chain) ==
    LET idx == {i \in 1..Len(chain) : chain[i].cls = "HTTPException"}
    IN  IF idx = {} THEN None
        ELSE Some(chain[CHOOSE i \in idx : \A j \in idx : i <= j])

NoteRaised(r, chain) ==
    IF IsSome(first_raised[r]) THEN first_raised
    ELSE [first_raised EXCEPT ![r] = FirstClassified(chain)]

\* an exception is raised inside the handler's try: the request fails
Fail(r, raised) ==
    LET chain == HandlerChain(raised)
    IN  /\ pc' = [pc EXCEPT ![r] = "failed"]
        /\ response' = [response EXCEPT ![r] = Some(FailureResponse(Propagated(chain)))]
        /\ first_raised' = NoteRaised(r, chain)

TaskIds(r) == DOMAIN tasks[r]

\* asyncio.gather without return_exceptions
GatherFailedIgnored(r) == FALSE

\* some gathered task has raised
GatherFailed(r) == \E i \in TaskIds(r) : tasks[r][i].state = "failed"

AllFinished(r) == \A i \in TaskIds(r) : tasks[r][i].state # "pending"

\* the future returned by gather is done: at the first exception of a task, or
\* when every task has finished
GatherReady(r) ==
    \/ \E i \in TaskIds(r) : tasks[r][i].state = "failed"
    \/ AllFinished(r)

\* the exception gather propagates: that of the task that failed first
GatherException(r) ==
    LET failed == {k \in 1..Len(done_order[r]) :
                      tasks[r][done_order[r][k]].state = "failed"}
        first == CHOOSE k \in failed : \A j \in failed : k <= j
    IN  Get(tasks[r][done_order[r][first]].exc)

GatherResultsCompletionOrder(r) ==
    [k \in 1..Len(done_order[r]) |-> tasks[r][done_order[r][k]].result]

\* the result list of gather: the results in the order of the awaitables
GatherResults(r) == [i \in TaskIds(r) |-> tasks[r][i].result]

NoImagesNever(image_urls) == FALSE

\* not image_urls
NoImages(image_urls) == Len(image_urls) = 0

Count(r, what) == [calls EXCEPT ![r][what] = @ + 1]

\* With a cache of downloads keyed by the URL (which the code does not have)
ReceiveCached(r) ==
    /\ pc[r] = "received"
    /\ IF \E q \in Reqs : q # r /\ remote[q] = remote[r] /\ IsSome(pdf_bytes[q])
       THEN /\ pc' = [pc EXCEPT ![r] = "rasterizing"]
            /\ pdf_bytes' = [pdf_bytes EXCEPT ![r] =
                   pdf_bytes[CHOOSE q \in Reqs :
                       q # r /\ remote[q] = remote[r] /\ IsSome(pdf_bytes[q])]]
            /\ UNCHANGED calls
       ELSE /\ pc' = [pc EXCEPT ![r] = "downloading"]
            /\ calls' = Count(r, "download")
            /\ UNCHANGED pdf_bytes
    /\ UNCHANGED <<remote, http_response, body_len, image_bytes_list, tasks,
                   done_order, first_raised, response>>

\* The request arrives; the handler calls download_pdf, which sends the GET
Receive(r) ==
    /\ pc[r] = "received"
    /\ pc' = [pc EXCEPT ![r] = "downloading"]
    /\ calls' = Count(r, "download")
    /\ UNCHANGED <<remote, http_response, body_len, pdf_bytes, image_bytes_list,
                   tasks, done_order, first_raised, response>>

\* session.get completes (or throws); status and content type are checked
GetResponse(r) ==
    /\ pc[r] = "downloading"
    /\ \E outcome \in TransportOutcomes :
         LET resp == [status |-> remote[r].status,
                      content_type |-> remote[r].content_type]
             chain == DownloadChain(DownloadHeadRaised(outcome, resp))
         IN  /\ http_response' = [http_response EXCEPT ![r] =
                    IF outcome = "ok" THEN Some(resp) ELSE None]
             /\ IF chain = <<>>
                THEN /\ pc' = [pc EXCEPT ![r] = "reading"]
                     /\ UNCHANGED <<first_raised, response>>
                ELSE Fail(r, chain)
    /\ UNCHANGED <<remote, body_len, pdf_bytes, image_bytes_list, tasks,
                   done_order, calls>>

\* With except clauses in download_pdf that log and do not raise: the function
\* then returns None, which the handler hands to the rasterizer
ReadBodyLenient(r) ==
    /\ pc[r] = "reading"
    /\ \E outcome \in TransportOutcomes :
         LET n == remote[r].len
             chain == DownloadChain(DownloadBodyRaised(outcome, n))
         IN  /\ body_len' = [body_len EXCEPT ![r] =
                    IF outcome = "ok" THEN Some(n) ELSE None]
             /\ pc' = [pc EXCEPT ![r] = "rasterizing"]
             /\ pdf_bytes' = [pdf_bytes EXCEPT ![r] =
                    IF chain = <<>>
                    THEN Some([len |-> n, pages |-> remote[r].pages])
                    ELSE Some([len |-> 0, pages |-> Unparseable])]
             /\ first_raised' = IF chain = <<>> THEN first_raised
                                ELSE NoteRaised(r, chain)
             /\ UNCHANGED response
    /\ UNCHANGED <<remote, http_response, image_bytes_list, tasks, done_order, calls>>

\* response.read() completes (or throws); the size is checked; download_pdf
\* returns the bytes to the handler
ReadBody(r) ==
    /\ pc[r] = "reading"
    /\ \E outcome \in TransportOutcomes :
         LET n == remote[r].len
             chain == DownloadChain(DownloadBodyRaised(outcome, n))
         IN  /\ body_len' = [body_len EXCEPT ![r] =
                    IF outcome = "ok" THEN Some(n) ELSE None]
             /\ IF chain = <<>>
                THEN /\ pc' = [pc EXCEPT ![r] = "rasterizing"]
                     /\ pdf_bytes' = [pdf_bytes EXCEPT ![r] =
                            Some([len |-> n, pages |-> remote[r].pages])]
                     /\ UNCHANGED <<first_raised, response>>
                ELSE /\ Fail(r, chain)
                     /\ UNCHANGED pdf_bytes
    /\ UNCHANGED <<remote, http_response, image_bytes_list, tasks, done_order, calls>>

\* convert_pdf_to_images runs without suspending; on success the handler creates
\* one upload coroutine per image and gather schedules them all
Rasterize(r) ==
    /\ pc[r] = "rasterizing"
    /\ LET doc == Get(pdf_bytes[r])
           chain == ConvertChain(doc)
       IN  IF chain = <<>>
           THEN LET images == ConvertImages(doc)
                IN  /\ image_bytes_list' = [image_bytes_list EXCEPT ![r] = Some(images)]
                    /\ tasks' = [tasks EXCEPT ![r] =
                           [i \in 1..Len(images) |-> PendingTask(images[i])]]
                    /\ calls' = [calls EXCEPT ![r]["raster"] = @ + 1,
                                              ![r]["upload"] = @ + Len(images)]
                    /\ pc' = [pc EXCEPT ![r] = "uploading"]
                    /\ UNCHANGED <<first_raised, response>>
           ELSE /\ Fail(r, chain)
                /\ calls' = Count(r, "raster")
                /\ UNCHANGED <<image_bytes_list, tasks>>
    /\ UNCHANGED <<remote, http_response, body_len, pdf_bytes, done_order>>

\* one upload task finishes: the host answered with a URL, answered with JSON
\* lacking data.url, or the call threw.  Tasks run on the event loop whether or
\* not the handler that gathered them is still waiting.
UploadDone(r, i) ==
    /\ i \in TaskIds(r)
    /\ tasks[r][i].state = "pending"
    /\ \E outcome \in UploadOutcomes, url \in HostUrls :
         LET chain == UploadChain(outcome)
         IN  /\ outcome # "ok" => url = CHOOSE u \in HostUrls : TRUE
             /\ tasks' = [tasks EXCEPT ![r][i] =
                    IF chain = <<>>
                    THEN [@ EXCEPT !.state = "done", !.result = url]
                    ELSE [@ EXCEPT !.state = "failed",
                                   !.exc = Some(Propagated(chain))]]
             /\ first_raised' = IF chain = <<>> THEN first_raised
                                ELSE NoteRaised(r, chain)
    /\ done_order' = [done_order EXCEPT ![r] = Append(@, i)]
    /\ UNCHANGED <<pc, remote, http_response, body_len, pdf_bytes,
                   image_bytes_list, response, calls>>

\* the handler resumes from await asyncio.gather(...)
GatherResume(r) ==
    /\ pc[r] = "uploading"
    /\ GatherReady(r)
    /\ IF GatherFailed(r)
       THEN Fail(r, <<GatherException(r)>>)
       ELSE LET image_urls == GatherResults(r)
            IN  IF NoImages(image_urls)
                THEN Fail(r, <<HTTPException(500,
                                   Detail("No images were generated.", <<>>))>>)
                ELSE /\ pc' = [pc EXCEPT ![r] = "responded"]
                     /\ response' = [response EXCEPT ![r] =
                            Some(SuccessResponse(image_urls))]
                     /\ UNCHANGED first_raised
    /\ UNCHANGED <<remote, http_response, body_len, pdf_bytes, image_bytes_list,
                   tasks, done_order, calls>>

-----------------------------------------------------------------------------
(* Specifications *)

NoCalls == [download |-> 0, raster |-> 0, upload |-> 0]

InitLocals ==
    /\ http_response = [r \in Reqs |-> None]
    /\ body_len = [r \in Reqs |-> None]
    /\ pdf_bytes = [r \in Reqs |-> None]
    /\ image_bytes_list = [r \in Reqs |-> None]
    /\ tasks = [r \in Reqs |-> <<>>]
    /\ done_order = [r \in Reqs |-> <<>>]
    /\ first_raised = [r \in Reqs |-> None]
    /\ response = [r \in Reqs |-> None]
    /\ calls = [r \in Reqs |-> NoCalls]

\* One request, for a URL that points to any resource
Init ==
    /\ pc = [r \in Reqs |-> IF r = 1 THEN "received" ELSE "absent"]
    /\ \E res \in Resources : remote = [r \in Reqs |-> res]
    /\ InitLocals

\* NumReqs requests in flight at once, all for the same valid single-page PDF
InitSame ==
    /\ pc = [r \in Reqs |-> "received"]
    /\ remote = [r \in Reqs |-> SinglePagePdf]
    /\ InitLocals

Next ==
    \E r \in Reqs :
        \/ Receive(r)
        \/ GetResponse(r)
        \/ ReadBody(r)
        \/ Rasterize(r)
        \/ \E i \in 1..(MaxPages + 1) : UploadDone(r, i)
        \/ GatherResume(r)

Spec == Init /\ [][Next]_vars

SpecSame == InitSame /\ [][Next]_vars

Terminal(r) == pc[r] \in {"responded", "failed"}

Resp(r) == Get(response[r])

-----------------------------------------------------------------------------
(* Claims *)

\* C1: when the download response has a status other than 200, the caller
\* receives a failure with status 400, never 500.
C1_NonOkStatusIs400 ==
    \A r \in Reqs :
        (Terminal(r) /\ IsSome(http_response[r])
                     /\ Get(http_response[r]).status # 200)
            => (Resp(r).kind = "failure" /\ Resp(r).status_code = 400)

\* C5: when the download response has status 200 and a Content-Type that does
\* not contain "pdf" (case-insensitive), the caller receives a failure with
\* status 400, not 500.
C5_NonPdfContentTypeIs400 ==
    \A r \in Reqs :
        (Terminal(r) /\ IsSome(http_response[r])
                     /\ Get(http_response[r]).status = 200
                     /\ ~Contains(PdfWord, Lower(Get(http_response[r]).content_type)))
            => (Resp(r).kind = "failure" /\ Resp(r).status_code = 400)

\* C7: a failure raised as an HTTPException reaches the caller with the status
\* code and the detail it was first raised with.
C7_ClassifiedFailurePassesThrough ==
    \A r \in Reqs :
        (pc[r] = "failed" /\ IsSome(first_raised[r]))
            => /\ Resp(r).status_code = Get(first_raised[r]).status_code
               /\ Resp(r).detail = Get(first_raised[r]).detail

\* C9: when the handler has returned its response, none of the uploads it
\* launched is still in flight.
C9_NoUploadInFlightAtResponse ==
    \A r \in Reqs :
        Terminal(r) => \A i \in TaskIds(r) : tasks[r][i].state # "pending"

\* C2: for a PDF of N >= 1 pages whose download, rasterization and N uploads
\* succeed, the success response lists exactly N URLs and entry i is the URL
\* the upload of page i returned, whatever order the uploads completed in.
C2_ImagesInPageOrder ==
    \A r \in Reqs :
        /\ pc[r] = "responded" =>
              LET n == Get(pdf_bytes[r]).pages
                  images == Resp(r).images
              IN  /\ n >= 1
                  /\ Resp(r).kind = "success"
                  /\ Len(images) = n
                  /\ \A i \in 1..n : /\ tasks[r][i].image = i
                                     /\ tasks[r][i].state = "done"
                                     /\ images[i] = tasks[r][i].result
        /\ (/\ Terminal(r)
            /\ TaskIds(r) # {}
            /\ \A i \in TaskIds(r) : tasks[r][i].state = "done") => pc[r] = "responded"

\* two pages, the upload of page 2 completing first, with different URLs
C2_Witness ==
    /\ pc[1] = "responded"
    /\ done_order[1] = <<2, 1>>
    /\ Resp(1).images[1] # Resp(1).images[2]

\* C3: when the rasterizer produces no page image the request fails with status
\* 500 and "No images were generated."; no success response has an empty list.
C3_NoEmptySuccess ==
    \A r \in Reqs :
        /\ (IsSome(response[r]) /\ Resp(r).kind = "success") => Len(Resp(r).images) > 0
        /\ (Terminal(r) /\ IsSome(image_bytes_list[r])
                        /\ Len(Get(image_bytes_list[r])) = 0)
              => /\ pc[r] = "failed"
                 /\ Resp(r).kind = "failure"
                 /\ Resp(r).status_code = 500
                 /\ Resp(r).detail = Detail("No images were generated.", <<>>)

C3_Witness ==
    /\ pc[1] = "failed"
    /\ IsSome(image_bytes_list[1])
    /\ Get(image_bytes_list[1]) = <<>>
    /\ Get(pdf_bytes[1]).pages = 0

\* C4: when at least one upload of a request fails, the response is a failure
\* with status 500; a success response lists the URL of every upload.
C4_AnyUploadFailureFailsRequest ==
    \A r \in Reqs :
        /\ (Terminal(r) /\ \E i \in TaskIds(r) : tasks[r][i].state = "failed")
              => /\ pc[r] = "failed"
                 /\ Resp(r).kind = "failure"
                 /\ Resp(r).status_code = 500
        /\ (IsSome(response[r]) /\ Resp(r).kind = "success")
              => /\ \A i \in TaskIds(r) : tasks[r][i].state = "done"
                 /\ Len(Resp(r).images) = Cardinality(TaskIds(r))

\* the upload of page 1 succeeded and that of page 2 failed
C4_Witness ==
    /\ pc[1] = "failed"
    /\ Cardinality(TaskIds(1)) = 2
    /\ tasks[1][1].state = "done"
    /\ tasks[1][2].state = "failed"
    /\ done_order[1] = <<1, 2>>

\* C6: a body longer than 10 MiB fails the request with the rasterizer never
\* invoked and no upload issued; a body of exactly 10 MiB passes the size check.
C6_SizeCapBeforeRasterization ==
    \A r \in Reqs :
        /\ (IsSome(body_len[r]) /\ Get(body_len[r]) > 10 * 1024 * 1024)
              => /\ pc[r] = "failed"
                 /\ IsNone(pdf_bytes[r])
                 /\ calls[r].raster = 0
                 /\ calls[r].upload = 0
                 /\ TaskIds(r) = {}
        /\ (IsSome(body_len[r]) /\ Get(body_len[r]) = 10 * 1024 * 1024)
              => /\ IsSome(pdf_bytes[r])
                 /\ Get(pdf_bytes[r]).len = 10 * 1024 * 1024

C6_Witness ==
    /\ IsSome(body_len[1])
    /\ Get(body_len[1]) = 10 * 1024 * 1024 + 1
    /\ pc[1] = "failed"

\* C8: two requests for the same valid single-page PDF, interleaved in any way,
\* each end in their own success response with one URL (that of their own
\* upload), each having made its own download, rasterization and upload.
C8_IndependentRequests ==
    \A r \in Reqs :
        /\ pc[r] = "responded"
              => /\ Resp(r).kind = "success"
                 /\ Len(Resp(r).images) = 1
                 /\ Resp(r).images[1] = tasks[r][1].result
                 /\ calls[r] = [download |-> 1, raster |-> 1, upload |-> 1]
        /\ (Terminal(r) /\ IsSome(pdf_bytes[r]) /\ TaskIds(r) = {1}
                        /\ tasks[r][1].state = "done") => pc[r] = "responded"

\* both requests answered, with different URLs
C8_Witness ==
    /\ \A r \in Reqs : pc[r] = "responded"
    /\ Resp(1).images # Resp(2).images

StageSteps ==
    {<<"received", "downloading">>, <<"downloading", "reading">>,
     <<"reading", "rasterizing">>, <<"rasterizing", "uploading">>,
     <<"uploading", "responded">>,
     <<"downloading", "failed">>, <<"reading", "failed">>,
     <<"rasterizing", "failed">>, <<"uploading", "failed">>}

C10_StageInvariant ==
    \A r \in Reqs :
        /\ calls[r].raster > 0
              => /\ calls[r].download = 1
                 /\ IsSome(http_response[r]) /\ IsSome(body_len[r])
                 /\ IsSome(pdf_bytes[r])
                 /\ pc[r] \in {"uploading", "responded", "failed"}
        /\ (calls[r].upload > 0 \/ TaskIds(r) # {})
              => /\ calls[r].raster = 1
                 /\ IsSome(image_bytes_list[r])
                 /\ calls[r].upload = Len(Get(image_bytes_list[r]))
                 /\ pc[r] \in {"uploading", "responded", "failed"}
        /\ (IsSome(first_raised[r]) /\ pc[r] # "failed")
              => (pc[r] = "uploading" /\ GatherFailed(r))
        /\ (pc[r] = "failed" /\ IsNone(pdf_bytes[r]))
              => (calls[r].raster = 0 /\ IsNone(image_bytes_list[r]))
        /\ (pc[r] = "failed" /\ IsNone(image_bytes_list[r]))
              => (calls[r].upload = 0 /\ TaskIds(r) = {})

\* C10: the stages run in the order download, rasterize, upload: rasterization
\* starts only after a successful download, uploads start only after a
\* successful rasterization, and a failed stage ends the request in its failed
\* state with no later stage started.
C10_StagesInOrder ==
    /\ []C10_StageInvariant
    /\ [][\A r \in Reqs : pc'[r] # pc[r] => <<pc[r], pc'[r]>> \in StageSteps]_vars

\* the rasterizer failed after a successful download, and nothing was uploaded
C10_Witness ==
    /\ pc[1] = "failed"
    /\ IsSome(pdf_bytes[1])
    /\ calls[1].raster = 1
    /\ IsNone(image_bytes_list[1])
    /\ calls[1].upload = 0

=============================================================================
